---------------------------- MODULE Spec2Model ----------------------------
(***************************************************************************)
(* A model of the flashcard pipeline: the tuple extractor                  *)
(* (api_chatgpt.extract_tuples), the record aggregator                     *)
(* (main.convert_tuples_to_records), the grid layout and cell writer       *)
(* (api_docx.reverse, api_docx.write_to_table), the paginator              *)
(* (DocxClient.write_records / _write_records_to_docx) and main's upload   *)
(* loop.                                                                   *)
(*                                                                         *)
(* Python strings that the code searches (sentences, keywords) are         *)
(* sequences of one-character strings; strings that the code only          *)
(* concatenates (file names, paths) are TLA+ strings.                      *)
(***************************************************************************)
EXTENDS Integers, Sequences, FiniteSets, TLC

VARIABLES
    n_rows,        \* DocxClient.n_rows
    n_cols,        \* DocxClient.n_cols
    template,      \* the template file: whether it exists, and the dimensions of its tables
    records,       \* the records dict handed to write_records
    pc,            \* position of main / write_records
    i,             \* write_records' loop index
    n_files,       \* write_records' n_files
    filenames,     \* write_records' filenames list
    handed,        \* every (filename, records) pair passed to _write_records_to_docx
    rpc,           \* position inside _write_records_to_docx
    ti,            \* _write_records_to_docx's dimension-check loop index
    doc,           \* the in-memory document of the page being rendered
    saved,         \* files written by doc.save during this run
    outcomes,      \* how each finished call of _write_records_to_docx ended (history)
    exc,           \* the exception that left write_records, or "none"
    result,        \* the list write_records returned
    uploads,       \* the upload_docx calls main made, with their return values
    drive_service, \* GoogleDocsClient.drive_service: "service", or "none" (None)
    stdout,        \* the lines upload_docx printed
    left_over,     \* paths of the files an earlier run left in the output folder
    words,         \* convert_tuples_to_records' words
    words_to_tuples, \* convert_tuples_to_records' words_to_tuples
    converted,     \* how the call of convert_tuples_to_records ended, and its value
    content,       \* extract_tuples' content, as a sequence of tokens
    extracted,     \* how the call of extract_tuples ended, and its value
    cell_sentence, \* the sentence of a one-cell call of write_to_table
    cell_bold_word, \* its keyword
    cell_written   \* how that call ended, and the table it left

(* The state of main's run from write_records on *)
pipeVars == << n_rows, n_cols, template, records, pc, i, n_files, filenames, handed,
               rpc, ti, doc, saved, outcomes, exc, result, uploads,
               drive_service, stdout, left_over >>

(* The state of the calls of the pure functions *)
aggVars == << words, words_to_tuples, converted >>
extractVars == << content, extracted >>
cellVars == << cell_sentence, cell_bold_word, cell_written >>

vars == << pipeVars, aggVars, extractVars, cellVars >>

----------------------------------------------------------------------------
(* Bounds of the model *)

MaxRows == 2
MaxCols == 3
MaxN == 5
MaxWords == 2
MaxTuples == 2
MaxSentenceLen == 3
MaxWordLen == 2
MaxTokens == 3
MaxElements == 2

(* Program constants *)

ROWS == 4
COLS == 3
FLASHCARDS_FOLDER == "word-files/"
FLASHCARDS_PREFIX == "flashcards-"

----------------------------------------------------------------------------
(* Helpers over sequences *)

Min(a, b) == IF a <= b THEN a ELSE b

(* Python's val[lo:hi] for 0 <= lo, with hi clipped to len(val) *)
Slice(val, lo, hi) == SubSeq(val, lo + 1, Min(hi, Len(val)))

(* The sequences over S of length at most n *)
BoundedSeq(S, n) == UNION { [1..k -> S] : k \in 0..n }

Digit == << "0", "1", "2", "3", "4", "5", "6", "7", "8", "9" >>

(* str(n) for a natural number n *)
RECURSIVE DecStr(_)
DecStr(n) == IF n < 10 THEN Digit[n + 1] ELSE DecStr(n \div 10) \o Digit[(n % 10) + 1]

Letter == << "a", "b", "c", "d", "e", "f", "g", "h", "i", "j", "k", "l", "m",
             "n", "o", "p", "q", "r", "s", "t", "u", "v", "w", "x", "y", "z" >>

----------------------------------------------------------------------------
(* api_docx.write_to_table and api_docx.reverse *)

(* str.find restricted to what partition needs: the least k >= 1 such that  *)
(* w occurs in s at position k, or 0 when w does not occur.                 *)
FirstOccurrence(s, w) ==
    LET hits == { k \in 1..(Len(s) - Len(w) + 1) : SubSeq(s, k, k + Len(w) - 1) = w }
    IN  IF hits = {} THEN 0 ELSE CHOOSE k \in hits : \A h \in hits : k <= h

(* sentence.partition(bold_word): (before, sep, after); Python raises      *)
(* ValueError("empty separator") when bold_word is empty.                  *)
PartitionRaises(s, w) == w = << >>

Partition(s, w) ==
    LET k == FirstOccurrence(s, w)
    IN  IF k = 0 THEN << s, << >>, << >> >>
        ELSE << SubSeq(s, 1, k - 1), w, SubSeq(s, k + Len(w), Len(s)) >>

Run(text, bold) == [text |-> text, bold |-> bold]

(* The runs write_to_table adds to a cell's paragraph (lines 21-28) *)
CellRuns(sentence, bold_word) ==
    LET p == Partition(sentence, bold_word)
    IN  (IF p[1] # << >> THEN << Run(p[1], FALSE) >> ELSE << >>)
        \o (IF p[2] # << >> THEN << Run(p[2], TRUE) >> ELSE << >>)
        \o (IF p[3] # << >> THEN << Run(p[3], FALSE) >> ELSE << >>)

(* A table cell: untouched template content, or the paragraph written *)
TemplateCell == [written |-> FALSE, runs |-> << >>]
WrittenCell(runs) == [written |-> TRUE, runs |-> runs]

(* A table of a freshly opened document *)
NewTable(dims) ==
    [rows |-> dims[1], cols |-> dims[2],
     cells |-> [r \in 0..(dims[1] - 1) |-> [c \in 0..(dims[2] - 1) |-> TemplateCell]]]

SetCell(table, r, c, cell) ==
    [table EXCEPT !.cells = [@ EXCEPT ![r] = [@ EXCEPT ![c] = cell]]]

(* write_to_table from index `index` on (0-based, as enumerate counts).    *)
(* The result is the table and the exception that ended the loop, if any:  *)
(* IndexError from table.rows[row_index], ValueError from partition after  *)
(* the cell has been cleared and given its paragraph.                      *)
RECURSIVE WriteFrom(_, _, _, _)
WriteFrom(table, sentences, bold_words, index) ==
    IF index >= Min(Len(sentences), Len(bold_words))
    THEN [table |-> table, raised |-> "none"]
    ELSE LET row_index == index \div table.cols
             col_index == index % table.cols
             sentence == sentences[index + 1]
             bold_word == bold_words[index + 1]
         IN  IF row_index >= table.rows
             THEN [table |-> table, raised |-> "IndexError"]
             ELSE IF PartitionRaises(sentence, bold_word)
             THEN [table |-> SetCell(table, row_index, col_index, WrittenCell(<< >>)),
                   raised |-> "ValueError"]
             ELSE WriteFrom(SetCell(table, row_index, col_index,
                                    WrittenCell(CellRuns(sentence, bold_word))),
                            sentences, bold_words, index + 1)

write_to_table(table, sentences, bold_words) == WriteFrom(table, sentences, bold_words, 0)

Blank == << " " >>

ReversePosOffByOne(index, cols) == (index \div cols) * cols + cols - (index % cols)

(* The output position reverse gives to input index `index` (0-based) *)
ReversePos(index, cols) == (index \div cols) * cols + cols - 1 - (index % cols)

(* reverse's loop from input index `index` on (0-based): the list         *)
(* assignment new_sequence[i * n_cols + n_cols - 1 - j] = value raises     *)
(* IndexError outside the list.                                            *)
RECURSIVE ReverseFrom(_, _, _, _)
ReverseFrom(new_sequence, sequence, cols, index) ==
    IF index >= Len(sequence)
    THEN [seq |-> new_sequence, raised |-> "none"]
    ELSE LET pos == ReversePos(index, cols)
         IN  IF pos >= Len(new_sequence)
             THEN [seq |-> new_sequence, raised |-> "IndexError"]
             ELSE ReverseFrom([new_sequence EXCEPT ![pos + 1] = sequence[index + 1]],
                              sequence, cols, index + 1)

reverse(sequence, cols, table_size) ==
    ReverseFrom([p \in 1..table_size |-> Blank], sequence, cols, 0)

----------------------------------------------------------------------------
(* DocxClient *)

Topic == "topic"

table_size == n_rows * n_cols

(* DocxClient._name_to_path *)
NameToPath(filename) == FLASHCARDS_FOLDER \o FLASHCARDS_PREFIX \o filename \o ".docx"

(* {key: val[chunk] if isinstance(val, list) else val}: the four lists are *)
(* sliced, n_records is passed on unchanged.                               *)
Chunk(recs, lo, hi) ==
    [base_sentences    |-> Slice(recs.base_sentences, lo, hi),
     target_sentences  |-> Slice(recs.target_sentences, lo, hi),
     base_bold_words   |-> Slice(recs.base_bold_words, lo, hi),
     target_bold_words |-> Slice(recs.target_bold_words, lo, hi),
     n_records         |-> recs.n_records]

(* write_records' n_files *)
NFiles(n, size) == (n + size - 1) \div size

FitsOnePageStrict(n, size) == n < size

(* The test of line 132: the records fit one document *)
FitsOnePage(n, size) == n <= size

(* The bounds of the chunk with loop index k (line 141) *)
ChunkLoShifted(k, size) == k * size + 1

ChunkLo(k, size) == k * size

ChunkHi(k, size, n) == Min((k + 1) * size, n)

(* The suffix of the page with loop index k *)
Suffix(k) == "-" \o DecStr(k + 1)

DimsLoopDoneAfterOne(t) == t >= 1

(* The dimension check covers range(2) *)
DimsLoopDone(t) == t >= 2

NoDoc == [tables |-> << >>]

(* The page _write_records_to_docx is working on *)
cur == handed[Len(handed)]

Call(filename, recs) == [filename |-> filename, records |-> recs]

Raise(e) == /\ pc' = "raised"
            /\ exc' = e
            /\ rpc' = "idle"

(* Lines 132-137: the single-document case calls the renderer at once,   *)
(* the other computes n_files and enters the loop.                       *)
WriteRecords ==
    /\ pc = "write_records"
    /\ IF FitsOnePage(records.n_records, table_size)
       THEN /\ handed' = Append(handed, Call(Topic, records))
            /\ rpc' = "open"
            /\ pc' = "single"
            /\ UNCHANGED n_files
       ELSE /\ n_files' = NFiles(records.n_records, table_size)
            /\ pc' = "loop"
            /\ UNCHANGED << handed, rpc >>
    /\ UNCHANGED << aggVars, extractVars, cellVars, drive_service, stdout, left_over >>
    /\ UNCHANGED << n_rows, n_cols, template, records, i, filenames, ti, doc,
                    saved, outcomes, exc, result, uploads >>

(* Line 134 *)
SingleReturn ==
    /\ pc = "single"
    /\ rpc = "idle"
    /\ result' = << << NameToPath(Topic), Topic >> >>
    /\ pc' = "upload"
    /\ UNCHANGED << aggVars, extractVars, cellVars, drive_service, stdout, left_over >>
    /\ UNCHANGED << n_rows, n_cols, template, records, i, n_files, filenames, handed,
                    rpc, ti, doc, saved, outcomes, exc, uploads >>

(* Lines 139-146: one iteration of the loop, up to the renderer's call *)
LoopBody ==
    /\ pc = "loop"
    /\ rpc = "idle"
    /\ Len(filenames) < n_files
    /\ LET k == Len(filenames)
           name == Topic \o Suffix(k)
           lo == ChunkLo(k, table_size)
           hi == ChunkHi(k, table_size, records.n_records)
       IN  /\ i' = k
           /\ filenames' = Append(filenames, name)
           /\ handed' = Append(handed, Call(name, Chunk(records, lo, hi)))
    /\ rpc' = "open"
    /\ UNCHANGED << aggVars, extractVars, cellVars, drive_service, stdout, left_over >>
    /\ UNCHANGED << n_rows, n_cols, template, records, pc, n_files, ti, doc,
                    saved, outcomes, exc, result, uploads >>

(* Line 148 *)
LoopReturn ==
    /\ pc = "loop"
    /\ rpc = "idle"
    /\ Len(filenames) = n_files
    /\ result' = [k \in 1..Len(filenames) |->
                    << NameToPath(filenames[k]), FLASHCARDS_PREFIX \o filenames[k] >>]
    /\ pc' = "upload"
    /\ UNCHANGED << aggVars, extractVars, cellVars, drive_service, stdout, left_over >>
    /\ UNCHANGED << n_rows, n_cols, template, records, i, n_files, filenames, handed,
                    rpc, ti, doc, saved, outcomes, exc, uploads >>

----------------------------------------------------------------------------
(* DocxClient._write_records_to_docx, one action per statement group *)

Expected == << n_rows, n_cols >>

TableDims(t) == << t.rows, t.cols >>

(* The call returns (None) to write_records *)
Return(how) == /\ rpc' = "idle"
               /\ outcomes' = Append(outcomes, how)

(* Line 91: Document(self.template) raises when the file cannot be opened *)
OpenDocument ==
    /\ rpc = "open"
    /\ IF template.exists
       THEN /\ doc' = [tables |-> [k \in 1..Len(template.tables) |->
                                      NewTable(template.tables[k])]]
            /\ rpc' = "tables"
            /\ UNCHANGED << pc, exc, outcomes >>
       ELSE /\ Raise("PackageNotFoundError")
            /\ outcomes' = Append(outcomes, "raised")
            /\ UNCHANGED doc
    /\ UNCHANGED << aggVars, extractVars, cellVars, drive_service, stdout, left_over >>
    /\ UNCHANGED << n_rows, n_cols, template, records, i, n_files, filenames, handed,
                    ti, saved, result, uploads >>

(* Lines 94-96 *)
ValidateTables ==
    /\ rpc = "tables"
    /\ IF Len(doc.tables) < 2
       THEN /\ Return("few_tables")
            /\ UNCHANGED ti
       ELSE /\ rpc' = "dims"
            /\ ti' = 0
            /\ UNCHANGED outcomes
    /\ UNCHANGED << aggVars, extractVars, cellVars, drive_service, stdout, left_over >>
    /\ UNCHANGED << n_rows, n_cols, template, records, pc, i, n_files, filenames, handed,
                    doc, saved, exc, result, uploads >>

(* Lines 98-103: one iteration of the dimension check *)
ValidateDims ==
    /\ rpc = "dims"
    /\ ~DimsLoopDone(ti)
    /\ IF TableDims(doc.tables[ti + 1]) # Expected
       THEN /\ Return("dimension_mismatch")
            /\ UNCHANGED ti
       ELSE /\ ti' = ti + 1
            /\ UNCHANGED << rpc, outcomes >>
    /\ UNCHANGED << aggVars, extractVars, cellVars, drive_service, stdout, left_over >>
    /\ UNCHANGED << n_rows, n_cols, template, records, pc, i, n_files, filenames, handed,
                    doc, saved, exc, result, uploads >>

(* Lines 107-113: the base table is written *)
WriteBase ==
    /\ rpc = "dims"
    /\ DimsLoopDone(ti)
    /\ LET w == write_to_table(doc.tables[1], cur.records.base_sentences,
                                cur.records.base_bold_words)
       IN  /\ doc' = [doc EXCEPT !.tables[1] = w.table]
           /\ IF w.raised = "none"
              THEN /\ rpc' = "write_target"
                   /\ UNCHANGED << pc, exc, outcomes >>
              ELSE /\ Raise(w.raised)
                   /\ outcomes' = Append(outcomes, "raised")
    /\ UNCHANGED << aggVars, extractVars, cellVars, drive_service, stdout, left_over >>
    /\ UNCHANGED << n_rows, n_cols, template, records, i, n_files, filenames, handed,
                    ti, saved, result, uploads >>

(* Lines 114-120: the target table is written from the reversed lists *)
WriteTarget ==
    /\ rpc = "write_target"
    /\ LET s == reverse(cur.records.target_sentences, n_cols, table_size)
           b == reverse(cur.records.target_bold_words, n_cols, table_size)
           w == write_to_table(doc.tables[2], s.seq, b.seq)
       IN  IF s.raised # "none" \/ b.raised # "none"
           THEN /\ Raise("IndexError")
                /\ outcomes' = Append(outcomes, "raised")
                /\ UNCHANGED doc
           ELSE /\ doc' = [doc EXCEPT !.tables[2] = w.table]
                /\ IF w.raised = "none"
                   THEN /\ rpc' = "save"
                        /\ UNCHANGED << pc, exc, outcomes >>
                   ELSE /\ Raise(w.raised)
                        /\ outcomes' = Append(outcomes, "raised")
    /\ UNCHANGED << aggVars, extractVars, cellVars, drive_service, stdout, left_over >>
    /\ UNCHANGED << n_rows, n_cols, template, records, i, n_files, filenames, handed,
                    ti, saved, result, uploads >>

File(path, d) == [path |-> path, tables |-> d.tables]

(* Lines 123-125: doc.save writes the file, or raises OSError (the output  *)
(* folder is missing, the disk is full, ...).                              *)
SaveDocument ==
    /\ rpc = "save"
    /\ \/ /\ saved' = { f \in saved : f.path # NameToPath(cur.filename) }
                         \cup { File(NameToPath(cur.filename), doc) }
          /\ Return("saved")
          /\ UNCHANGED << pc, exc >>
       \/ /\ Raise("OSError")
          /\ outcomes' = Append(outcomes, "raised")
          /\ UNCHANGED saved
    /\ UNCHANGED << aggVars, extractVars, cellVars, drive_service, stdout, left_over >>
    /\ UNCHANGED << n_rows, n_cols, template, records, i, n_files, filenames, handed,
                    ti, doc, result, uploads >>

----------------------------------------------------------------------------
(* main's upload loop and GoogleDocsClient.upload_docx *)

SavedPaths == { f.path : f \in saved }

Upload(path, name, ret) == [path |-> path, name |-> name, ret |-> ret]

(* The paths MediaFileUpload can open: the files this run saved and the    *)
(* files an earlier run left (the path depends on the topic only).         *)
OnDisk == SavedPaths \cup left_over

(* upload_docx lines 83-107: how a call can end. Without a drive service   *)
(* it gives up at once; MediaFileUpload cannot open a file that is not on  *)
(* disk; the request itself succeeds or fails.                             *)
UploadOutcomes(path) ==
    IF drive_service = "none" THEN { "no_service" }
    ELSE IF path \notin OnDisk THEN { "prepare_failed" }
    ELSE { "uploaded", "upload_failed" }

(* The value upload_docx returns: the file id, or "error" (lines 85, 99,   *)
(* 104, 107)                                                               *)
UploadReturn(outcome) == IF outcome = "uploaded" THEN "id" ELSE "error"

(* The lines upload_docx prints (lines 84, 98, 106): one per failure, the  *)
(* last two naming docx_path; nothing on success.                          *)
UploadPrints(outcome, path) ==
    CASE outcome = "no_service" ->
            << [text |-> "Google Drive service is not initialized. Aborting upload.",
                path |-> ""] >>
      [] outcome = "prepare_failed" ->
            << [text |-> "Failed to prepare file for upload", path |-> path] >>
      [] outcome = "upload_failed" ->
            << [text |-> "Failed to upload to Google Docs", path |-> path] >>
      [] OTHER -> << >>

(* main lines 134-135, one iteration: upload_docx is called and its return *)
(* value dropped. Every exception is caught inside upload_docx.            *)
UploadNext ==
    /\ pc = "upload"
    /\ Len(uploads) < Len(result)
    /\ LET e == result[Len(uploads) + 1]
       IN  \E outcome \in UploadOutcomes(e[1]) :
              /\ uploads' = Append(uploads, Upload(e[1], e[2], UploadReturn(outcome)))
              /\ stdout' = stdout \o UploadPrints(outcome, e[1])
    /\ UNCHANGED << aggVars, extractVars, cellVars, drive_service, left_over >>
    /\ UNCHANGED << n_rows, n_cols, template, records, pc, i, n_files, filenames, handed,
                    rpc, ti, doc, saved, outcomes, exc, result >>

(* main returns *)
MainExit ==
    /\ pc = "upload"
    /\ Len(uploads) = Len(result)
    /\ pc' = "exit"
    /\ UNCHANGED << aggVars, extractVars, cellVars, drive_service, stdout, left_over >>
    /\ UNCHANGED << n_rows, n_cols, template, records, i, n_files, filenames, handed,
                    rpc, ti, doc, saved, outcomes, exc, result, uploads >>

----------------------------------------------------------------------------
(* Inputs *)

(* The record with 1-based number j: sentences that hold the letter of j,  *)
(* then the keyword, then a language mark.                                 *)
BaseKeyword == << "k" >>
TargetKeyword == << "m" >>
Absent == << "z", "z" >>

BaseSentence(j) == << Letter[((j - 1) % 26) + 1] >> \o BaseKeyword \o << "b" >>
TargetSentence(j) == << Letter[((j - 1) % 26) + 1] >> \o TargetKeyword \o << "t" >>

(* n records; the keywords occur in their sentences (kw = "hit") or do not *)
(* (kw = "miss"); record number emptyAt (0: none) has an empty keyword on  *)
(* the given side.                                                         *)
MkRecords(n, kw, emptyAt, side) ==
    [base_sentences    |-> [j \in 1..n |-> BaseSentence(j)],
     target_sentences  |-> [j \in 1..n |-> TargetSentence(j)],
     base_bold_words   |-> [j \in 1..n |->
                              IF j = emptyAt /\ side = "base" THEN << >>
                              ELSE IF kw = "hit" THEN BaseKeyword ELSE Absent],
     target_bold_words |-> [j \in 1..n |->
                              IF j = emptyAt /\ side = "target" THEN << >>
                              ELSE IF kw = "hit" THEN TargetKeyword ELSE Absent],
     n_records         |-> n]

Shapes == { << r, c, n >> : r \in 1..MaxRows, c \in 1..MaxCols, n \in 0..MaxN }
          \cup { << ROWS, COLS, n >> : n \in 0..(2 * ROWS * COLS + 1) }

Contents(n) ==
    { MkRecords(n, kw, 0, "base") : kw \in { "hit", "miss" } }
    \cup { MkRecords(n, "hit", e, side) : e \in { 1, n } \ { 0 },
                                          side \in { "base", "target" } }

Templates(r, c) ==
    { [exists |-> FALSE, tables |-> << >>] }
    \cup { [exists |-> TRUE, tables |-> t] :
             t \in { << >>,
                     << << r, c >> >>,
                     << << r, c >>, << r, c >> >>,
                     << << r + 1, c >>, << r, c >> >>,
                     << << r, c >>, << r, c + 1 >> >>,
                     << << r, c >>, << r, c >>, << r + 1, c + 1 >> >> } }

NotCalled == [status |-> "not_called"]

AggIdle == words = << >> /\ words_to_tuples = << >> /\ converted = NotCalled
ExtractIdle == content = << >> /\ extracted = NotCalled
CellIdle == cell_sentence = << >> /\ cell_bold_word = << >> /\ cell_written = NotCalled

(* The paths write_records names for n records on pages of the given size  *)
(* (lines 133 and 140-143): the only paths the run ever opens.             *)
PagePaths(n, size) ==
    IF FitsOnePage(n, size)
    THEN { NameToPath(Topic) }
    ELSE { NameToPath(Topic \o Suffix(k)) : k \in 0..(NFiles(n, size) - 1) }

(* What an earlier run with the same topic can have left at those paths:   *)
(* any of them, on any pages.                                              *)
LeftOvers(n, size) == SUBSET PagePaths(n, size)

Init ==
    /\ AggIdle /\ ExtractIdle /\ CellIdle
    /\ \E sh \in Shapes :
          /\ n_rows = sh[1]
          /\ n_cols = sh[2]
          /\ records \in Contents(sh[3])
          /\ template \in Templates(sh[1], sh[2])
          /\ left_over \in LeftOvers(sh[3], sh[1] * sh[2])
    /\ pc = "write_records"
    /\ i = 0
    /\ n_files = 0
    /\ filenames = << >>
    /\ handed = << >>
    /\ rpc = "idle"
    /\ ti = 0
    /\ doc = NoDoc
    /\ saved = {}
    /\ outcomes = << >>
    /\ exc = "none"
    /\ result = << >>
    /\ uploads = << >>
    /\ drive_service \in { "service", "none" }
    /\ stdout = << >>

Next ==
    \/ WriteRecords
    \/ SingleReturn
    \/ LoopBody
    \/ LoopReturn
    \/ OpenDocument
    \/ ValidateTables
    \/ ValidateDims
    \/ WriteBase
    \/ WriteTarget
    \/ SaveDocument
    \/ UploadNext
    \/ MainExit

Spec == Init /\ [][Next]_vars

----------------------------------------------------------------------------
(* main.convert_tuples_to_records *)

NoLists == [target_sentences |-> << >>, base_sentences |-> << >>,
            bold_target_words |-> << >>, bold_base_words |-> << >>]

AppendTupleSwapped(acc, tup) ==
    [target_sentences  |-> Append(acc.target_sentences, tup[2]),
     base_sentences    |-> Append(acc.base_sentences, tup[1]),
     bold_target_words |-> Append(acc.bold_target_words, tup[4]),
     bold_base_words   |-> Append(acc.bold_base_words, tup[3])]

(* Lines 67-71: the tuple is unpacked as (target_sentence, base_sentence,  *)
(* bold_target_word, bold_base_word) and each field appended to its list.  *)
AppendTuple(acc, tup) ==
    [target_sentences  |-> Append(acc.target_sentences, tup[1]),
     base_sentences    |-> Append(acc.base_sentences, tup[2]),
     bold_target_words |-> Append(acc.bold_target_words, tup[3]),
     bold_base_words   |-> Append(acc.bold_base_words, tup[4])]

(* The inner loop of line 67 *)
RECURSIVE AppendTuples(_, _)
AppendTuples(acc, tuples) ==
    IF tuples = << >> THEN acc
    ELSE AppendTuples(AppendTuple(acc, Head(tuples)), Tail(tuples))

(* The outer loop of line 66; words_to_tuples[word] raises KeyError for a  *)
(* word that is not a key.                                                 *)
RECURSIVE ConvertWords(_, _, _)
ConvertWords(acc, ws, dict) ==
    IF ws = << >> THEN [raised |-> "none", lists |-> acc]
    ELSE IF Head(ws) \notin DOMAIN dict THEN [raised |-> "KeyError", lists |-> acc]
    ELSE ConvertWords(AppendTuples(acc, dict[Head(ws)]), Tail(ws), dict)

convert_tuples_to_records(ws, dict) ==
    LET r == ConvertWords(NoLists, ws, dict)
    IN  IF r.raised # "none"
        THEN [status |-> r.raised]
        ELSE [status |-> "returned",
              value |-> [base_sentences    |-> r.lists.base_sentences,
                         target_sentences  |-> r.lists.target_sentences,
                         base_bold_words   |-> r.lists.bold_base_words,
                         target_bold_words |-> r.lists.bold_target_words,
                         n_records         |-> Len(r.lists.base_sentences)]]

(* The call of line 128 of main *)
ConvertTuplesToRecords ==
    /\ converted = [status |-> "called"]
    /\ converted' = convert_tuples_to_records(words, words_to_tuples)
    /\ UNCHANGED << pipeVars, extractVars, cellVars, words, words_to_tuples >>

(* Inputs of the aggregator *)
WordPool == { "a", "b" }

Tuple4(x) == << "T" \o x, "B" \o x, "t" \o x, "b" \o x >>

TuplePool == { Tuple4("1"), Tuple4("2") }

Dicts == UNION { [D -> BoundedSeq(TuplePool, MaxTuples)] : D \in SUBSET WordPool }

(* main has not reached write_records *)
PipelineIdle ==
    /\ n_rows = ROWS
    /\ n_cols = COLS
    /\ template = [exists |-> TRUE, tables |-> << << ROWS, COLS >>, << ROWS, COLS >> >>]
    /\ records = MkRecords(0, "hit", 0, "base")
    /\ pc = "not_started"
    /\ i = 0
    /\ n_files = 0
    /\ filenames = << >>
    /\ handed = << >>
    /\ rpc = "idle"
    /\ ti = 0
    /\ doc = NoDoc
    /\ saved = {}
    /\ outcomes = << >>
    /\ exc = "none"
    /\ result = << >>
    /\ uploads = << >>
    /\ drive_service = "service"
    /\ stdout = << >>
    /\ left_over = {}

InitAggregate ==
    /\ PipelineIdle /\ ExtractIdle /\ CellIdle
    /\ words \in BoundedSeq(WordPool, MaxWords)
    /\ words_to_tuples \in Dicts
    /\ converted = [status |-> "called"]

NextAggregate == ConvertTuplesToRecords

SpecAggregate == InitAggregate /\ [][NextAggregate]_vars

----------------------------------------------------------------------------
(* api_chatgpt.extract_tuples                                              *)
(*                                                                         *)
(* The content is a sequence of tokens; the text it stands for is the      *)
(* tokens joined by single spaces. The tokens are the brackets, the comma, *)
(* the string literals 'a' and 'b', the number 1 and the name x.           *)
(* ast.literal_eval is modelled on these tokens: Python's expression       *)
(* grammar (displays, groups, calls, subscripts, adjacent string literals) *)
(* and literal_eval's conversion of the tree, with the exception each      *)
(* raises.                                                                 *)

StringTokens == { "'a'", "'b'" }

Tokens == { "[", "]", "(", ")", "{", "}", ",", "1", "x" } \cup StringTokens

(* The value of a string literal *)
StrValue(tok) == IF tok = "'a'" THEN << "a" >> ELSE << "b" >>

(* content.find(tok) and content.rfind(tok): 0-based, -1 when absent *)
Find(text, tok) ==
    LET at == { k \in 1..Len(text) : text[k] = tok }
    IN  IF at = {} THEN -1 ELSE (CHOOSE k \in at : \A h \in at : k <= h) - 1

RFind(text, tok) ==
    LET at == { k \in 1..Len(text) : text[k] = tok }
    IN  IF at = {} THEN -1 ELSE (CHOOSE k \in at : \A h \in at : h <= k) - 1

(* Syntax trees and values share one shape *)
Node(kind, s, elts) == [kind |-> kind, s |-> s, elts |-> elts]

Failed == [ok |-> FALSE, node |-> Node("none", << >>, << >>), pos |-> 0]

Parsed(node, pos) == [ok |-> TRUE, node |-> node, pos |-> pos]

Tok(t, p) == IF p >= 1 /\ p <= Len(t) THEN t[p] ELSE "EOF"

(* After a comma, these tokens end a display: the comma was a trailing one *)
EndsItems(tok) == tok \in { ")", "]", "}", ",", "EOF" }

Closer(tok) == IF tok = "(" THEN ")" ELSE IF tok = "[" THEN "]" ELSE "}"

(* The atom "()", "[]" or "{}" *)
EmptyDisplay(tok) ==
    Node(IF tok = "(" THEN "Tuple" ELSE IF tok = "[" THEN "List" ELSE "Dict", << >>, << >>)

(* The atom for items between brackets: a parenthesised expression without *)
(* a comma is the expression itself, not a tuple                           *)
DisplayNode(tok, items) ==
    IF tok = "(" THEN (IF items.s = << >> THEN items.elts[1]
                       ELSE Node("Tuple", << >>, items.elts))
    ELSE IF tok = "[" THEN Node("List", << >>, items.elts)
    ELSE Node("Set", << >>, items.elts)

RECURSIVE ParseStrings(_, _, _)
RECURSIVE ParseAtom(_, _)
RECURSIVE ParseTrailers(_, _, _)
RECURSIVE ParseItems(_, _)

(* STRING+: adjacent string literals are concatenated *)
ParseStrings(t, p, acc) ==
    IF Tok(t, p) \in StringTokens
    THEN ParseStrings(t, p + 1, acc \o StrValue(Tok(t, p)))
    ELSE Parsed(Node("Str", acc, << >>), p)

AfterAtom(t, a) == IF a.ok THEN ParseTrailers(t, a.node, a.pos) ELSE Failed

(* primary: an atom followed by any number of calls and subscripts *)
ParseExpr(t, p) == AfterAtom(t, ParseAtom(t, p))

ConsItem(node, r) ==
    IF ~r.ok THEN Failed
    ELSE Parsed(Node("Items", << "," >>, << node >> \o r.node.elts), r.pos)

AfterItem(t, e) ==
    IF ~e.ok THEN Failed
    ELSE IF Tok(t, e.pos) # ","
    THEN Parsed(Node("Items", << >>, << e.node >>), e.pos)
    ELSE IF EndsItems(Tok(t, e.pos + 1))
    THEN Parsed(Node("Items", << "," >>, << e.node >>), e.pos + 1)
    ELSE ConsItem(e.node, ParseItems(t, e.pos + 1))

(* One or more expressions separated by commas, with an optional trailing  *)
(* comma: the node holds them, and in s whether a comma was seen.          *)
ParseItems(t, p) == AfterItem(t, ParseExpr(t, p))

CloseDisplay(t, tok, r) ==
    IF ~r.ok \/ Tok(t, r.pos) # Closer(tok) THEN Failed
    ELSE Parsed(DisplayNode(tok, r.node), r.pos + 1)

ParseAtom(t, p) ==
    LET tok == Tok(t, p)
    IN  IF tok = "x" THEN Parsed(Node("Name", << >>, << >>), p + 1)
        ELSE IF tok = "1" THEN Parsed(Node("Num", << >>, << >>), p + 1)
        ELSE IF tok \in StringTokens THEN ParseStrings(t, p, << >>)
        ELSE IF tok \in { "(", "[", "{" }
        THEN IF Tok(t, p + 1) = Closer(tok) THEN Parsed(EmptyDisplay(tok), p + 2)
             ELSE CloseDisplay(t, tok, ParseItems(t, p + 1))
        ELSE Failed

TrailerNode(tok) == Node(IF tok = "(" THEN "Call" ELSE "Subscript", << >>, << >>)

CloseTrailer(t, tok, r) ==
    IF ~r.ok \/ Tok(t, r.pos) # Closer(tok) THEN Failed
    ELSE ParseTrailers(t, TrailerNode(tok), r.pos + 1)

(* A call f(...) may have no argument; a subscript a[...] needs one *)
ParseTrailers(t, node, p) ==
    LET tok == Tok(t, p)
    IN  IF tok \in { "(", "[" }
        THEN IF tok = "(" /\ Tok(t, p + 1) = ")"
             THEN ParseTrailers(t, TrailerNode(tok), p + 2)
             ELSE CloseTrailer(t, tok, ParseItems(t, p + 1))
        ELSE Parsed(node, p)

TopNode(r) ==
    IF r.node.s = << >> THEN Parsed(r.node.elts[1], r.pos)
    ELSE Parsed(Node("Tuple", << >>, r.node.elts), r.pos)

AtEnd(t, r) == IF ~r.ok \/ r.pos # Len(t) + 1 THEN Failed ELSE TopNode(r)

(* ast.parse(text, mode="eval"): a tree, or SyntaxError *)
ParseEval(t) == AtEnd(t, ParseItems(t, 1))

(* hash(value) succeeds *)
RECURSIVE Hashable(_)
Hashable(v) ==
    \/ v.kind \in { "str", "int" }
    \/ v.kind = "tuple" /\ \A k \in 1..Len(v.elts) : Hashable(v.elts[k])

Converted(v) == [err |-> "none", val |-> v]

ConvertError(e) == [err |-> e, val |-> Node("none", << >>, << >>)]

RECURSIVE ConvertNode(_)
RECURSIVE ConvertElts(_, _, _, _)

AfterElt(elts, k, acc, hashed, c) ==
    IF c.err # "none" THEN c
    ELSE IF hashed /\ ~Hashable(c.val) THEN ConvertError("TypeError")
    ELSE ConvertElts(elts, k + 1, Append(acc, c.val), hashed)

(* map(_convert, elts), consumed in order by tuple(), list() or set(): the *)
(* first element that fails ends it; set() hashes each element as it comes *)
ConvertElts(elts, k, acc, hashed) ==
    IF k > Len(elts) THEN Converted(Node("elts", << >>, acc))
    ELSE AfterElt(elts, k, acc, hashed, ConvertNode(elts[k]))

ValueKind(kind) ==
    IF kind = "Tuple" THEN "tuple" ELSE IF kind = "List" THEN "list" ELSE "set"

Collected(kind, c) ==
    IF c.err # "none" THEN c ELSE Converted(Node(ValueKind(kind), << >>, c.val.elts))

(* literal_eval's _convert: a malformed node raises ValueError *)
ConvertNode(node) ==
    IF node.kind = "Str" THEN Converted(Node("str", node.s, << >>))
    ELSE IF node.kind = "Num" THEN Converted(Node("int", << >>, << >>))
    ELSE IF node.kind \in { "Tuple", "List", "Set" }
    THEN Collected(node.kind, ConvertElts(node.elts, 1, << >>, node.kind = "Set"))
    ELSE IF node.kind = "Dict" THEN Converted(Node("dict", << >>, << >>))
    ELSE ConvertError("ValueError")

Evaluated(r) == IF ~r.ok THEN ConvertError("SyntaxError") ELSE ConvertNode(r.node)

(* ast.literal_eval(text) *)
LiteralEval(t) == Evaluated(ParseEval(t))

(* isinstance(tup, tuple) and len(tup) == 4 and all(isinstance(item, str)) *)
IsTupleOfFourStr(v) ==
    /\ v.kind = "tuple"
    /\ Len(v.elts) = 4
    /\ \A k \in 1..Len(v.elts) : v.elts[k].kind = "str"

(* The Python list of tuples of strings as a sequence of sequences *)
AsTuples(v) == [k \in 1..Len(v.elts) |-> [f \in 1..Len(v.elts[k].elts) |-> v.elts[k].elts[f].s]]

(* The exceptions line 63 catches *)
Caught(e) == e \in { "ValueError", "SyntaxError" }

(* Lines 52-64, given what literal_eval did *)
Validated(r) ==
    IF r.err # "none"
    THEN IF Caught(r.err) THEN [status |-> "returned", value |-> << >>]
         ELSE [status |-> r.err, value |-> << >>]
    ELSE IF r.val.kind = "list" /\ \A k \in 1..Len(r.val.elts) : IsTupleOfFourStr(r.val.elts[k])
    THEN [status |-> "returned", value |-> AsTuples(r.val)]
    ELSE [status |-> "returned", value |-> << >>]

extract_tuples(text) ==
    LET start == Find(text, "[")
        end == RFind(text, "]")
    IN  IF start = -1 \/ end = -1 THEN [status |-> "returned", value |-> << >>]
        ELSE Validated(LiteralEval(SubSeq(text, start + 1, end + 1)))

(* The call of line 109 *)
ExtractTuples ==
    /\ extracted = [status |-> "called"]
    /\ extracted' = extract_tuples(content)
    /\ UNCHANGED << pipeVars, aggVars, cellVars, content >>

(* Inputs of the extractor: every short token sequence, and lists of       *)
(* elements between a prefix and a suffix.                                 *)
T4(a, b, c, d) == << "(", a, ",", b, ",", c, ",", d, ")" >>

Elements ==
    { T4("'a'", "'b'", "'a'", "'b'"),
      T4("'b'", "'b'", "'a'", "'a'"),
      << "(", "'a'", ",", "'b'", ",", "'a'", ",", "'b'", ",", ")" >>,
      << "(", "'a'", "'b'", ",", "'b'", ",", "'a'", ",", "'b'", ")" >>,
      T4("'a'", "1", "'a'", "'b'"),
      << "(", "'a'", ",", "'b'", ",", "'a'", ")" >>,
      << "(", "'a'", ",", "'b'", ",", "'a'", ",", "'b'", ",", "'a'", ")" >>,
      << "[", "'a'", ",", "'b'", ",", "'a'", ",", "'b'", "]" >>,
      << "{", "[", "]", "}" >>,
      << "'a'" >>,
      << "x" >> }

RECURSIVE Joined(_)
Joined(es) ==
    IF es = << >> THEN << >>
    ELSE IF Len(es) = 1 THEN es[1]
    ELSE es[1] \o << "," >> \o Joined(Tail(es))

Affixes == { << >>, << "x" >>, << "[" >>, << "]" >> }

Wrapped ==
    { pre \o << open[1] >> \o Joined(es) \o << open[2] >> \o post :
        pre \in Affixes, post \in Affixes,
        open \in { << "[", "]" >>, << "(", ")" >> },
        es \in BoundedSeq(Elements, MaxElements) }

InitExtract ==
    /\ PipelineIdle /\ AggIdle /\ CellIdle
    /\ content \in BoundedSeq(Tokens, MaxTokens) \cup Wrapped
    /\ extracted = [status |-> "called"]

NextExtract == ExtractTuples

SpecExtract == InitExtract /\ [][NextExtract]_vars

----------------------------------------------------------------------------
(* A call of write_to_table for one sentence and a table of one cell *)

WriteOneCell ==
    /\ cell_written = [status |-> "called"]
    /\ LET w == write_to_table(NewTable(<< 1, 1 >>), << cell_sentence >>,
                                << cell_bold_word >>)
       IN  cell_written' = [status |-> IF w.raised = "none" THEN "returned" ELSE w.raised,
                            table |-> w.table]
    /\ UNCHANGED << pipeVars, aggVars, extractVars, cell_sentence, cell_bold_word >>

Chars == { "a", "b" }

InitCell ==
    /\ PipelineIdle /\ AggIdle /\ ExtractIdle
    /\ cell_sentence \in BoundedSeq(Chars, MaxSentenceLen)
    /\ cell_bold_word \in BoundedSeq(Chars, MaxWordLen)
    /\ cell_written = [status |-> "called"]

NextCell == WriteOneCell

SpecCell == InitCell /\ [][NextCell]_vars

----------------------------------------------------------------------------
(* Vocabulary of the properties *)

Capacity == n_rows * n_cols

N == records.n_records

Lists == { "base_sentences", "target_sentences", "base_bold_words", "target_bold_words" }

(* write_records has returned its list to main *)
Returned == pc \in { "upload", "exit" }

(* The least q with q * c >= n *)
CeilDiv(n, c) == CHOOSE q \in 0..n : q * c >= n /\ \A q2 \in 0..n : q2 * c >= n => q <= q2

PageSize(k) == Len(handed[k].records.base_sentences)

PageSizes == [k \in 1..Len(handed) |-> PageSize(k)]

PageNames == [k \in 1..Len(handed) |-> handed[k].filename]

(* The concatenation of a sequence of sequences *)
RECURSIVE Flatten(_)
Flatten(ss) == IF ss = << >> THEN << >> ELSE Head(ss) \o Flatten(Tail(ss))

RECURSIVE SumSeq(_)
SumSeq(q) == IF q = << >> THEN 0 ELSE Head(q) + SumSeq(Tail(q))

(* The pages' lists named `key`, concatenated in page order *)
Concatenated(key) == Flatten([k \in 1..Len(handed) |-> handed[k].records[key]])

IsPrefix(a, b) == Len(a) <= Len(b) /\ a = SubSeq(b, 1, Len(a))

AnyCellWritten(d) ==
    \E k \in 1..Len(d.tables) :
       \E r \in 0..(d.tables[k].rows - 1), c \in 0..(d.tables[k].cols - 1) :
          d.tables[k].cells[r][c].written

(* The render of the page handed last has ended with outcome `how` *)
LastRenderEnded(how) ==
    /\ handed # << >>
    /\ Len(outcomes) = Len(handed)
    /\ outcomes[Len(outcomes)] = how

----------------------------------------------------------------------------
(* C1: the pages write_records hands to the renderer are contiguous slices *)
(* of the four record lists in original order. At every point the pages    *)
(* handed so far, concatenated in page order, are a leading part of each    *)
(* original list, the four lists of a page have the same length, every page *)
(* holds at most capacity records and every page but the one handed last    *)
(* holds exactly capacity; once write_records has returned, the             *)
(* concatenation is the original list and the page sizes sum to N.          *)
C1_PagesAreContiguousSlices ==
    /\ \A key \in Lists : IsPrefix(Concatenated(key), records[key])
    /\ \A k \in 1..Len(handed) :
          /\ \A key \in Lists : Len(handed[k].records[key]) = PageSize(k)
          /\ PageSize(k) <= Capacity
          /\ k < Len(handed) => PageSize(k) = Capacity
    /\ Returned =>
          /\ \A key \in Lists : Concatenated(key) = records[key]
          /\ SumSeq(PageSizes) = N

(* A run of several pages has returned, its last page partly filled *)
C1_Witness ==
    /\ Returned
    /\ Len(handed) >= 3
    /\ PageSize(Len(handed)) > 0
    /\ PageSize(Len(handed)) < Capacity

(* C2: when write_records returns, it has produced exactly one page, named  *)
(* by the unsuffixed base name, if N <= capacity (N = capacity included),   *)
(* and otherwise ceil(N / capacity) pages, the k-th (k = 1, 2, ...) named   *)
(* base-k; the paths it returns are those of these names, in page order.    *)
(* With rows = 4, cols = 3, N = 14: two pages of sizes [12, 2] named        *)
(* base-1, base-2.                                                          *)
C2_PageCountAndNames ==
    Returned =>
       /\ IF N <= Capacity
          THEN PageNames = << Topic >>
          ELSE /\ Len(handed) = CeilDiv(N, Capacity)
               /\ \A k \in 1..Len(handed) : PageNames[k] = Topic \o "-" \o DecStr(k)
       /\ Len(result) = Len(handed)
       /\ \A k \in 1..Len(handed) : result[k][1] = NameToPath(PageNames[k])
       /\ (n_rows = 4 /\ n_cols = 3 /\ N = 14) =>
             /\ PageSizes = << 12, 2 >>
             /\ PageNames = << "topic-1", "topic-2" >>

(* The example run has returned *)
C2_Witness ==
    /\ Returned
    /\ n_rows = 4 /\ n_cols = 3 /\ N = 14
    /\ Len(handed) = 2

(* C3: with an empty record set no page is handed to the renderer, no file  *)
(* is saved, write_records returns an empty list and nothing is uploaded.   *)
C3_EmptyRecordSetProducesNothing ==
    N = 0 =>
       /\ handed = << >>
       /\ saved = {}
       /\ result = << >>
       /\ uploads = << >>

(* C4: in a run of several pages, a failure inside the render of one page   *)
(* (other than the template file being absent) does not keep write_records  *)
(* from attempting the pages after it: when write_records has ended, by a   *)
(* return or by an exception, every page has been handed to the renderer.   *)
C4_LaterPagesStillAttempted ==
    (/\ N > Capacity
     /\ \/ Returned
        \/ pc = "raised" /\ exc # "PackageNotFoundError")
    => Len(handed) = CeilDiv(N, Capacity)

(* C5: what write_records returns tells the saved pages from the aborted   *)
(* ones: for a record set that is not empty, every path it returns is that  *)
(* of a document saved during the call.                                     *)
C5_ReturnedPathsWereSaved ==
    (Returned /\ N > 0) => \A k \in 1..Len(result) : result[k][1] \in SavedPaths

(* C6: a cell of the document is written only after both tables have been  *)
(* found to have the configured (rows, cols); a render that ends on a       *)
(* dimension mismatch has written no cell and saved no file.                *)
C6_DimensionsCheckedBeforeWriting ==
    /\ AnyCellWritten(doc) =>
          /\ Len(doc.tables) >= 2
          /\ \A k \in 1..2 : TableDims(doc.tables[k]) = << n_rows, n_cols >>
    /\ LastRenderEnded("dimension_mismatch") =>
          /\ ~AnyCellWritten(doc)
          /\ NameToPath(cur.filename) \notin SavedPaths
    /\ \A k \in 1..Len(outcomes) :
          outcomes[k] = "dimension_mismatch" => NameToPath(handed[k].filename) \notin SavedPaths

(* A render has ended on a mismatch of the second table alone *)
C6_Witness ==
    /\ LastRenderEnded("dimension_mismatch")
    /\ TableDims(doc.tables[1]) = << n_rows, n_cols >>
    /\ TableDims(doc.tables[2]) # << n_rows, n_cols >>
    /\ cur.records.base_sentences # << >>

(* C7: reverse, applied to a page's list (of length <= capacity), returns a *)
(* list of length capacity holding input element i at position              *)
(* (i div cols) * cols + (cols - 1 - (i mod cols)) and the blank everywhere *)
(* else; a page whose two tables have been written holds record i in base   *)
(* cell (i div cols, i mod cols) and in target cell                         *)
(* (i div cols, cols - 1 - (i mod cols)).                                   *)
(* reverse([v0, v1, v2], 3, 3) = [v2, v1, v0].                              *)
C7_MirrorPlacement ==
    handed # << >> =>
       LET page == cur.records
           size == Len(page.target_sentences)
           rv == reverse(page.target_sentences, n_cols, Capacity)
           image == { (x \div n_cols) * n_cols + (n_cols - 1 - (x % n_cols)) :
                         x \in 0..(size - 1) }
       IN  /\ rv.raised = "none"
           /\ Len(rv.seq) = Capacity
           /\ \A x \in 0..(size - 1) :
                 rv.seq[(x \div n_cols) * n_cols + (n_cols - 1 - (x % n_cols)) + 1]
                    = page.target_sentences[x + 1]
           /\ \A p \in 0..(Capacity - 1) : p \notin image => rv.seq[p + 1] = << " " >>
           /\ (n_cols = 3 /\ Capacity = 3 /\ size = 3) =>
                 rv.seq = << page.target_sentences[3], page.target_sentences[2],
                             page.target_sentences[1] >>
           /\ rpc = "save" =>
                 \A x \in 0..(size - 1) :
                    /\ doc.tables[1].cells[x \div n_cols][x % n_cols]
                          = WrittenCell(CellRuns(page.base_sentences[x + 1],
                                                 page.base_bold_words[x + 1]))
                    /\ doc.tables[2].cells[x \div n_cols][n_cols - 1 - (x % n_cols)]
                          = WrittenCell(CellRuns(page.target_sentences[x + 1],
                                                 page.target_bold_words[x + 1]))

(* Both tables of a partly filled page of several rows and columns are written *)
C7_Witness ==
    /\ rpc = "save"
    /\ n_rows >= 2 /\ n_cols >= 2
    /\ PageSize(Len(handed)) > n_cols
    /\ PageSize(Len(handed)) < Capacity

(* C8: convert_tuples_to_records keeps the order of the words and of each  *)
(* word's tuples and keeps the four lists parallel: the j-th tuple overall  *)
(* gives its first field to target_sentences[j], its second to              *)
(* base_sentences[j], its third to target_bold_words[j] and its fourth to   *)
(* base_bold_words[j]; the four lists have length n_records, the number of  *)
(* tuples over the word list; a word with no tuples adds nothing; the call  *)
(* raises KeyError exactly when a word is not a key of the mapping.         *)
C8_AggregatePreservesOrder ==
    converted.status # "called" =>
       IF \E k \in 1..Len(words) : words[k] \notin DOMAIN words_to_tuples
       THEN converted.status = "KeyError"
       ELSE LET all == Flatten([k \in 1..Len(words) |-> words_to_tuples[words[k]]])
                total == SumSeq([k \in 1..Len(words) |-> Len(words_to_tuples[words[k]])])
                v == converted.value
            IN  /\ converted.status = "returned"
                /\ v.n_records = total
                /\ Len(all) = total
                /\ v.target_sentences = [j \in 1..total |-> all[j][1]]
                /\ v.base_sentences = [j \in 1..total |-> all[j][2]]
                /\ v.target_bold_words = [j \in 1..total |-> all[j][3]]
                /\ v.base_bold_words = [j \in 1..total |-> all[j][4]]

(* Two words, the first with no tuples, the second with two different ones *)
C8_Witness ==
    /\ converted.status = "returned"
    /\ Len(words) = 2
    /\ words_to_tuples[words[1]] = << >>
    /\ Len(words_to_tuples[words[2]]) = 2
    /\ words_to_tuples[words[2]][1] # words_to_tuples[words[2]][2]
    /\ converted.value.n_records = 2

(* C9: extract_tuples never raises, and its result is all or nothing: the *)
(* parsed tuples, in order, when the text from the first "[" to the last    *)
(* "]" evaluates to a list whose every element is a tuple of four strings,  *)
(* and the empty list in every other case.                                  *)
C9_ExtractNeverRaises ==
    extracted.status # "called" =>
       /\ extracted.status = "returned"
       /\ LET start == Find(content, "[")
              end == RFind(content, "]")
              r == LiteralEval(SubSeq(content, start + 1, end + 1))
          IN  IF /\ start # -1 /\ end # -1
                 /\ r.err = "none"
                 /\ r.val.kind = "list"
                 /\ \A k \in 1..Len(r.val.elts) :
                       /\ r.val.elts[k].kind = "tuple"
                       /\ Len(r.val.elts[k].elts) = 4
                       /\ \A f \in 1..4 : r.val.elts[k].elts[f].kind = "str"
              THEN extracted.value =
                      [k \in 1..Len(r.val.elts) |->
                         [f \in 1..4 |-> r.val.elts[k].elts[f].s]]
              ELSE extracted.value = << >>

(* The text of a cell's runs, in order *)
RunsText(runs) == Flatten([k \in 1..Len(runs) |-> runs[k].text])

(* C10: for a sentence s and a keyword w, the cell writer does not fail;   *)
(* the runs it emits, concatenated in order, are s; if w occurs in s the    *)
(* runs are the text before the first occurrence (plain, if not empty), w   *)
(* (bold) and the text after it (plain, if not empty); if w does not occur  *)
(* the only run is s, plain.                                                *)
C10_FirstOccurrenceEmphasized ==
    (cell_written.status # "called" /\ Len(cell_sentence) >= 2) =>
       /\ cell_written.status = "returned"
       /\ LET runs == cell_written.table.cells[0][0].runs
              s == cell_sentence
              w == cell_bold_word
              at == { k \in 1..(Len(s) + 1) : k + Len(w) - 1 <= Len(s)
                                               /\ SubSeq(s, k, k + Len(w) - 1) = w }
          IN  /\ RunsText(runs) = s
              /\ IF at = {}
                 THEN runs = << Run(s, FALSE) >>
                 ELSE LET k == CHOOSE k \in at : \A h \in at : k <= h
                          plain(t) == IF t = << >> THEN << >> ELSE << Run(t, FALSE) >>
                          bold(t) == IF t = << >> THEN << >> ELSE << Run(t, TRUE) >>
                      IN  runs = plain(SubSeq(s, 1, k - 1)) \o bold(w)
                                 \o plain(SubSeq(s, k + Len(w), Len(s)))

(* Whether a printed line reports document u with the given verdict. The   *)
(* lines upload_docx prints name the path of the document; a line naming   *)
(* the path counts as naming the filename.                                 *)
ReportLines == { "Failed to prepare file for upload", "Failed to upload to Google Docs" }
ReportedFailed(u) ==
    \E m \in 1..Len(stdout) : stdout[m].path = u.path /\ stdout[m].text \in ReportLines
ReportedSucceeded(u) ==
    \E m \in 1..Len(stdout) : stdout[m].path = u.path /\ stdout[m].text \notin ReportLines

(* C11: an upload failure is non-fatal per document. When main ends, it    *)
(* has attempted the upload of every document write_records returned, in   *)
(* page order, whatever the earlier uploads returned, and the run has      *)
(* reported each filename as failed or as succeeded, as its upload went.   *)
C11_UploadFailuresCollectedAndReported ==
    pc = "exit" =>
        /\ Len(uploads) = Len(result)
        /\ \A k \in 1..Len(uploads) :
              /\ uploads[k].path = result[k][1]
              /\ uploads[k].name = result[k][2]
              /\ IF uploads[k].ret = "error"
                 THEN ReportedFailed(uploads[k])
                 ELSE ReportedSucceeded(uploads[k])

============================================================================
